---- MODULE Spec2Model ----
(***************************************************************************)
(* Business Central MCP client: the token manager (src/src/azure_auth.py)  *)
(* and the resilient request executor BusinessCentralClient._request       *)
(* (src/src/client.py), as a state machine.                                *)
(*                                                                         *)
(* A caller is one coroutine running _request.  It is suspended only at    *)
(* the three await points of the code: the POST to the token endpoint      *)
(* (pc = "fetch"), the API request (pc = "request") and asyncio.sleep      *)
(* (pc = "sleep").  Everything between two await points is one action.     *)
(***************************************************************************)
EXTENDS Integers, Sequences, FiniteSets, TLC

VARIABLES
    identity,     \* config.azure_ad: which of tenant_id, client_id, client_secret are set
    base_url,     \* config.bc.base_url, the base of APIEndpointBuilder
    built,        \* the last call of build_custom_url made from outside the client
    tm_token,     \* token_manager._token   (NoToken is None)
    tm_expires,   \* token_manager._expires (NoExpiry is None)
    now,          \* datetime.utcnow(), in seconds
    grant,        \* history: the last 200 answer of the token endpoint and when it came
    acq,          \* history: the acquisition requests since the cache last lost a token
    active,       \* the callers that run _request
    op,           \* per caller: the operation of the client that is running
    req,          \* per caller: what the operation passed to _request, and the url
    calls,        \* number of _request calls started so far
    pc,           \* per caller: idle, fetch, request, sleep, done, raised
    i,            \* per caller: the loop index of _request
    token,        \* per caller: the local variable token
    resp,         \* per caller: the local variable resp
    ret,          \* per caller: the value _request returned
    exc,          \* per caller: the exception _request propagated
    errlog,       \* per caller: the last warning/error record logged by _request
    trace         \* per caller: what the current call did, in order

vars == <<identity, base_url, built, tm_token, tm_expires, now, grant, acq, active,
          op, req, calls,
          pc, i, token, resp, ret, exc, errlog, trace>>

-----------------------------------------------------------------------------
(* Program constants *)

RetriesPlusOne == 3 + 1
Retries == 3
ExcerptLen == 200
DefaultExpiresIn == 3600
NoToken == 0
NoExpiry == 0

(* Bounds of the model *)

MaxTokens == 2
MaxCalls == 2
MaxTime == 3601

Callers == {"c1", "c2"}
Tokens == 1..MaxTokens
\* The instants at which the clock is observed: the start, and the seconds
\* around the expiry of a token acquired at the start.
Instants == {0} \cup ((MaxTime - 2)..MaxTime)
IdentityFields == {"tenant_id", "client_id", "client_secret"}

-----------------------------------------------------------------------------
(* Python values returned by _request: None or a dict (a function from keys) *)

None == [py |-> "None"]
Dict(d) == [py |-> "dict", d |-> d]
EmptyDict == <<>>

\* Python truthiness of a returned value: None and the empty dict are falsy.
Truthy(v) == v.py = "dict" /\ DOMAIN v.d # {}

-----------------------------------------------------------------------------
(* Response bodies *)

Pad50 == "<p>Internal Server Error: upstream unavailable</p>"
LongErrorPage == "<html>" \o Pad50 \o Pad50 \o Pad50 \o Pad50 \o "</html>"

TxtEmptyList == "{\"value\":[]}"
TxtOneItem == "{\"value\":[{\"number\":\"ABC\"}]}"
TxtRecord == "{\"id\":\"42\"}"
TxtSuccess == "{\"success\":true}"
TxtEmptyObject == "{}"
TxtNull == "null"
TxtHtml == "<html>OK</html>"
TxtEmpty == ""
TxtError == "{\"error\":{\"code\":\"BadRequest\"}}"

ValidJson == {TxtEmptyList, TxtOneItem, TxtRecord, TxtSuccess, TxtEmptyObject,
              TxtNull, TxtError}

\* resp.json(): the parsed body; raises ValueError outside ValidJson.
ParseJson(text) ==
    CASE text = TxtEmptyList -> Dict([value |-> <<>>])
      [] text = TxtOneItem -> Dict([value |-> <<[number |-> "ABC"]>>])
      [] text = TxtRecord -> Dict([id |-> "42"])
      [] text = TxtSuccess -> Dict([success |-> TRUE])
      [] text = TxtEmptyObject -> Dict(EmptyDict)
      [] text = TxtNull -> None
      [] text = TxtError -> Dict([error |-> [code |-> "BadRequest"]])

\* text[:n]
PrefixWhole(text, n) == text
Prefix(text, n) == IF Len(text) <= n THEN text ELSE SubSeq(text, 1, n)

Response(status, text) == [raises |-> "", status |-> status, text |-> text]
Raises(e) == [raises |-> e, status |-> 0, text |-> ""]
NoResp == [raises |-> "", status |-> 0, text |-> ""]

Responses ==
    {Response(200, t) : t \in {TxtEmptyList, TxtOneItem, TxtRecord, TxtSuccess,
                               TxtEmptyObject, TxtNull, TxtHtml, TxtEmpty}}
    \cup {Response(201, TxtRecord), Response(201, TxtEmpty)}
    \cup {Response(204, TxtEmpty)}
    \cup {Response(400, TxtError), Response(404, TxtEmpty)}
    \cup {Response(401, TxtEmpty)}
    \cup {Response(500, LongErrorPage), Response(503, TxtEmpty)}

ApiOutcomes == Responses \cup {Raises("httpx.ConnectError"), Raises("httpx.ReadTimeout")}

\* What the token endpoint can answer: 200 with a token JSON (expires_in may be
\* omitted), a non-200 status, or a transport error.
TokenJsons ==
    {[access_token |-> t] : t \in Tokens}
    \cup {[access_token |-> t, expires_in |-> 3600] : t \in Tokens}

TokenReplies ==
    {[raises |-> "", status |-> 200, json |-> j] : j \in TokenJsons}
    \cup {[raises |-> "", status |-> s, json |-> EmptyDict] : s \in {400, 500}}
    \cup {[raises |-> "httpx.ConnectError", status |-> 0, json |-> EmptyDict]}

-----------------------------------------------------------------------------
(* Token manager *)

\* AzureTokenManager._valid
ValidUntilExpiryIncluded(tok, expires, t) == tok # NoToken /\ expires # NoExpiry /\ t <= expires
ValidNever(tok, expires, t) == FALSE
ValidByExpiryAlone(tok, expires, t) == expires # NoExpiry /\ t < expires
Valid(tok, expires, t) == tok # NoToken /\ expires # NoExpiry /\ t < expires

\* get_token's configuration test (line 59) on an identity id
ConfiguredInPart(id) == id # {}
Configured(id) == id = IdentityFields
IdentityConfigured == Configured(identity)

\* get_token (lines 59-64): what it does for identity id, cache (tok, expires)
\* and time t: return None, return the cached token, or await _fetch.
GetTokenPathCacheFirst(id, tok, expires, t) ==
    IF Valid(tok, expires, t) THEN "cached"
    ELSE IF ~Configured(id) THEN "absent" ELSE "fetch"

GetTokenPath(id, tok, expires, t) ==
    IF ~Configured(id) THEN "absent"
    ELSE IF Valid(tok, expires, t) THEN "cached" ELSE "fetch"

\* j.get("expires_in", 3600)
ExpiresInWithMargin(j) ==
    (IF "expires_in" \in DOMAIN j THEN j.expires_in ELSE DefaultExpiresIn) - 300
ExpiresIn(j) == IF "expires_in" \in DOMAIN j THEN j.expires_in ELSE DefaultExpiresIn

\* line 83: self._token = j["access_token"], whatever the cache held (cur)
StoredTokenFirstWins(j, cur) == IF cur # NoToken THEN cur ELSE j.access_token
StoredToken(j, cur) == j.access_token

(* History of the acquisitions *)

NoGrant == [at |-> 0, json |-> EmptyDict]
Granted(t, j) == [at |-> t, json |-> j]

\* sent: requests posted to the token endpoint since the cache last lost a
\* token (by line 137 or by expiry) or since the start; ok: one of them has
\* been answered 200 and stored; late: those posted after that.
AcqReset == [sent |-> 0, ok |-> FALSE, late |-> 0]
AcqPosted(a) == [sent |-> a.sent + 1, ok |-> a.ok,
                 late |-> a.late + (IF a.ok THEN 1 ELSE 0)]

-----------------------------------------------------------------------------
(* Trace events of one _request call *)

Ev(e, v) == [e |-> e, v |-> v]
EvGetToken == Ev("get_token", 0)        \* token_manager.get_token() is called
EvFetch == Ev("fetch", 0)               \* _fetch posts to the token endpoint
EvGot(tok) == Ev("got", tok)            \* get_token returned tok (NoToken: None)
EvSend(tok) == Ev("send", tok)          \* the API request is sent with Bearer tok
EvResp(status) == Ev("resp", status)    \* the API answered with status
EvInvalidate(tok) == Ev("invalidate", tok)  \* line 137 ran; _token is now tok
EvSleep(d) == Ev("sleep", d)            \* asyncio.sleep(d) is called

Events(p, kind) == SelectSeq(trace[p], LAMBDA x : x.e = kind)
Count(p, kind) == Len(Events(p, kind))
Values(p, kind) == [k \in 1..Count(p, kind) |-> Events(p, kind)[k].v]

-----------------------------------------------------------------------------
(* _request *)

\* line 115: for i in range(self._retries) moves to the next index
NextAttemptStuck(idx) == idx
NextAttempt(idx) == idx + 1

\* line 118: if not token
AbsentCredentialIgnored(tok) == FALSE
AbsentCredential(tok) == tok = NoToken

\* line 129, 136, 140: the classification of the response status
IsSuccessStatus(status) == status \in {200, 201, 204}
IsAnyClientError(status) == status \in 400..499
IsUnauthorized(status) == status = 401
IsServerErrorOrClientError(status) == status >= 400
IsServerError(status) == status >= 500

\* line 137: token_manager._token = None
InvalidatedTokenKept(tok) == tok
InvalidatedToken(tok) == NoToken

\* line 142: asyncio.sleep(2 ** i)
BackoffLinear(idx) == 2 * idx
Backoff(idx) == 2 ^ idx

\* Lines 129-135: the value returned for a 200, 201 or 204 response.
SuccessValueBareFallback(r) ==
    IF r.status = 204 \/ r.text \notin ValidJson
    THEN Dict([success |-> TRUE])
    ELSE ParseJson(r.text)

SuccessValueNoFallback(r) ==
    IF r.status = 204
    THEN Dict([success |-> TRUE])
    ELSE IF r.text \in ValidJson THEN ParseJson(r.text) ELSE None

SuccessValue(r) ==
    IF r.status = 204
    THEN Dict([success |-> TRUE])
    ELSE IF r.text \in ValidJson
         THEN ParseJson(r.text)
         ELSE Dict([success |-> TRUE, raw_response |-> r.text])

\* nothing logged at warning or error level
NoLog == [msg |-> "none", status |-> 0, excerpt |-> ""]

\* Lines 145-149: the loop ended without a return.
Fail(p, tr, r) ==
    /\ pc' = [pc EXCEPT ![p] = "done"]
    /\ ret' = [ret EXCEPT ![p] = None]
    /\ trace' = [trace EXCEPT ![p] = tr]
    /\ errlog' = [errlog EXCEPT ![p] =
          IF r # NoResp
          THEN [msg |-> "status", status |-> r.status, excerpt |-> Prefix(r.text, ExcerptLen)]
          ELSE [msg |-> "no_response", status |-> 0, excerpt |-> ""]]
    /\ UNCHANGED <<i, token>>

\* Lines 117-126: get_token returned tok; return None without a credential,
\* send the API request otherwise.
AfterGetToken(p, tok, tr) ==
    /\ token' = [token EXCEPT ![p] = tok]
    /\ IF AbsentCredential(tok)
       THEN /\ pc' = [pc EXCEPT ![p] = "done"]
            /\ ret' = [ret EXCEPT ![p] = None]
            /\ trace' = [trace EXCEPT ![p] = Append(tr, EvGot(tok))]
            /\ errlog' = [errlog EXCEPT ![p] =
                  [msg |-> "no_credentials", status |-> 0, excerpt |-> ""]]
       ELSE /\ pc' = [pc EXCEPT ![p] = "request"]
            /\ trace' = [trace EXCEPT ![p] = tr \o <<EvGot(tok), EvSend(tok)>>]
            /\ UNCHANGED <<ret, errlog>>

\* Lines 115-126: the head of iteration idx, up to its first await.  tmTok is
\* token_manager._token as the preceding statements left it, tr the trace so
\* far and r the last response.  get_token (azure_auth.py 53-64) returns None
\* without a configured identity, the cached token while it is valid, and
\* awaits _fetch otherwise.
EnterIteration(p, idx, tmTok, tr, r) ==
    IF idx >= Retries
    THEN Fail(p, tr, r)
    ELSE /\ i' = [i EXCEPT ![p] = idx]
         /\ LET path == GetTokenPath(identity, tmTok, tm_expires, now)
            IN IF path = "absent"
               THEN AfterGetToken(p, NoToken, Append(tr, EvGetToken))
               ELSE IF path = "cached"
               THEN AfterGetToken(p, tmTok, Append(tr, EvGetToken))
               ELSE /\ pc' = [pc EXCEPT ![p] = "fetch"]
                    /\ trace' = [trace EXCEPT ![p] = tr \o <<EvGetToken, EvFetch>>]
                    /\ UNCHANGED <<token, ret, errlog>>

(* The operations of BusinessCentralClient (lines 150-459) *)

\* a Python list
List(l) == [py |-> "list", l |-> l]

(* APIEndpointBuilder (lines 50-76) *)

\* config.bc: the base URL has the shape config.py:79-81 gives it, the host
\* and the tenant shortened; the company id
DeploymentBase == "https://x/v2.0/T/prod/api/v2.0"
CompanyId == "C"

\* the bases APIEndpointBuilder is constructed with: the deployment's, one
\* with the version segment twice, one with a tail after it, one without it
BaseUrls ==
    {DeploymentBase, "https://x/api/v2.0/T/api/v2.0", "https://x/api/v2.0/beta",
     "https://x/bc"}

\* the place of the first occurrence of sub in s, 0 if there is none
Find(s, sub) ==
    LET hits == {k \in 1..(Len(s) - Len(sub) + 1) :
                    SubSeq(s, k, k + Len(sub) - 1) = sub}
    IN IF hits = {} THEN 0 ELSE CHOOSE k \in hits : \A j \in hits : k <= j

\* s.split(sub)[0]
Before(s, sub) == IF Find(s, sub) = 0 THEN s ELSE SubSeq(s, 1, Find(s, sub) - 1)

\* build_standard_url
BuildStandardUrl(base, company, endpoint) ==
    base \o "/companies(" \o company \o ")/" \o endpoint

\* build_custom_url
BuildCustomUrlCutAtVersionNumber(base, company, publisher, app_group, version, endpoint, use_company) ==
    LET custom_path == Before(base, "/v2.0") \o "/api/" \o publisher \o "/"
                           \o app_group \o "/" \o version
    IN IF use_company
       THEN custom_path \o "/companies(" \o company \o ")/" \o endpoint
       ELSE custom_path \o "/" \o endpoint

BuildCustomUrl(base, company, publisher, app_group, version, endpoint, use_company) ==
    LET base_without_version == Before(base, "/api/v2.0")
        custom_path == base_without_version \o "/api/" \o publisher \o "/"
                           \o app_group \o "/" \o version
    IN IF use_company
       THEN custom_path \o "/companies(" \o company \o ")/" \o endpoint
       ELSE custom_path \o "/" \o endpoint

\* The calls of build_custom_url made from outside the client.
BuilderCalls ==
    [publisher : {"acme", "techSphereDynamics"}, app_group : {"g", "delivery"},
     version : {"v1", "v1.0"}, endpoint : {"things", "deliveries", "routes/optimize"},
     use_company : BOOLEAN]

NoBuilt == [call |-> EmptyDict, url |-> ""]

-----------------------------------------------------------------------------
(* The arguments of the operations and the requests they make *)

\* An operation is a method name and its arguments (a dict of those given).
Operation(name, arg) == [name |-> name, arg |-> arg]
Direct == Operation("_request", EmptyDict)

ListOperations ==
    {"get_customers", "get_items", "get_orders", "get_sales_orders",
     "get_currency_exchange_rates", "get_deliveries", "get_delivery_routes",
     "get_inventory_status"}

\* return await self._request(...)
PassOperations ==
    {"get_customer", "get_customer_by_id", "create_customer",
     "update_delivery_status", "optimize_route"}

\* delivery ids: a GUID, a number with a hyphen, and the edges of line 345:
\* 21 characters with a hyphen, 20 characters with a hyphen, 24 without one
GuidId == "0f8fad5b-d9cb-469f-a165-70867728950e"
NumberId == "DEL-001"
DeliveryIds ==
    {GuidId, NumberId, "DEL-00000000000000001", "DEL-0000000000000001",
     "DELIVERY0000000000000001"}

\* the filters of get_deliveries: every subset of the four fields, and a
\* field given as the empty string
FilterFields == {"customer_id", "status", "date_from", "date_to"}
FilterValue(k) ==
    CASE k = "customer_id" -> "C001"
      [] k = "status" -> "Delivered"
      [] k = "date_from" -> "2024-01-01"
      [] k = "date_to" -> "2024-01-31"
DeliveryFilters ==
    {[k \in S |-> FilterValue(k)] : S \in SUBSET FilterFields}
    \cup {[status |-> "", date_to |-> "2024-01-31"]}

StatusUpdates ==
    {[delivery_id |-> NumberId, status |-> "Delivered", notes |-> n] :
        n \in {"", "left at the door"}}

Operations ==
    {Operation(n, EmptyDict) :
        n \in {"get_customers", "get_items", "get_orders", "get_sales_orders",
               "get_currency_exchange_rates", "get_inventory_status"}}
    \cup {Operation("get_delivery_routes",
                    [date_from |-> "2024-01-01", date_to |-> "2024-01-31"])}
    \cup {Operation("get_deliveries", f) : f \in DeliveryFilters}
    \cup {Operation("get_customer", [cid |-> "42"]),
          Operation("get_customer_by_id", [customer_id |-> "42"]),
          Operation("create_customer", [data |-> [displayName |-> "Contoso"]]),
          Operation("optimize_route", [route_data |-> [routeId |-> "R1"]]),
          Operation("get_item_by_number", [item_no |-> "ABC"])}
    \cup {Operation("update_delivery_status", u) : u \in StatusUpdates}
    \cup {Operation("get_delivery", [delivery_id |-> d]) : d \in DeliveryIds}

\* get_delivery, line 345: len(delivery_id) > 20 and '-' in delivery_id
LooksLikeGuidByLengthAlone(id) == Len(id) > 20
LooksLikeGuid(id) ==
    Len(id) > 20 /\ \E k \in 1..Len(id) : SubSeq(id, k, k) = "-"

\* d.get(k) is truthy: the key is there and its value is not the empty string
Has(d, k) == k \in DOMAIN d /\ d[k] # ""

\* " and ".join(parts)
RECURSIVE JoinAnd(_)
JoinAnd(parts) ==
    IF parts = <<>> THEN ""
    ELSE IF Len(parts) = 1 THEN parts[1]
    ELSE parts[1] \o " and " \o JoinAnd(SubSeq(parts, 2, Len(parts)))

\* get_deliveries, lines 300-324: the value of params["$filter"], "" when the
\* key is never set
DeliveriesFilterFlat(filters) ==
    LET c == IF Has(filters, "customer_id")
             THEN "customerId eq '" \o filters["customer_id"] \o "'" ELSE ""
        s == IF Has(filters, "status")
             THEN (IF c # "" THEN c \o " and status eq '" \o filters["status"] \o "'"
                   ELSE "status eq '" \o filters["status"] \o "'")
             ELSE c
        date_filter ==
            (IF Has(filters, "date_from")
             THEN <<"deliveryDate ge " \o filters["date_from"]>> ELSE <<>>)
            \o (IF Has(filters, "date_to")
                THEN <<"deliveryDate le " \o filters["date_to"]>> ELSE <<>>)
    IN IF date_filter # <<>>
       THEN (IF s # "" THEN s \o " and " \o JoinAnd(date_filter)
             ELSE JoinAnd(date_filter))
       ELSE s

DeliveriesFilterAndAlways(filters) ==
    LET c == IF Has(filters, "customer_id")
             THEN "customerId eq '" \o filters["customer_id"] \o "'" ELSE ""
        s == IF Has(filters, "status")
             THEN c \o " and status eq '" \o filters["status"] \o "'"
             ELSE c
        date_filter ==
            (IF Has(filters, "date_from")
             THEN <<"deliveryDate ge " \o filters["date_from"]>> ELSE <<>>)
            \o (IF Has(filters, "date_to")
                THEN <<"deliveryDate le " \o filters["date_to"]>> ELSE <<>>)
    IN IF date_filter # <<>>
       THEN s \o " and (" \o JoinAnd(date_filter) \o ")"
       ELSE s

DeliveriesFilter(filters) ==
    LET c == IF Has(filters, "customer_id")
             THEN "customerId eq '" \o filters["customer_id"] \o "'" ELSE ""
        s == IF Has(filters, "status")
             THEN (IF c # "" THEN c \o " and status eq '" \o filters["status"] \o "'"
                   ELSE "status eq '" \o filters["status"] \o "'")
             ELSE c
        date_filter ==
            (IF Has(filters, "date_from")
             THEN <<"deliveryDate ge " \o filters["date_from"]>> ELSE <<>>)
            \o (IF Has(filters, "date_to")
                THEN <<"deliveryDate le " \o filters["date_to"]>> ELSE <<>>)
    IN IF date_filter # <<>>
       THEN (IF s # "" THEN s \o " and (" \o JoinAnd(date_filter) \o ")"
             ELSE JoinAnd(date_filter))
       ELSE s

\* params: {"$top": top}, and "$filter" when a filter was built
Top(n) == ("$top" :> n)
WithFilter(params, f) == IF f = "" THEN params ELSE params @@ ("$filter" :> f)

\* update_delivery_status, lines 381-386: the body
StatusBodyMarkerUnlessNotes(u) ==
    IF u.notes # ""
    THEN [status |-> u.status, notes |-> u.notes]
    ELSE [status |-> u.status, lastUpdateDate |-> None]

StatusBody(u) ==
    IF u.notes # ""
    THEN [status |-> u.status, lastUpdateDate |-> None, notes |-> u.notes]
    ELSE [status |-> u.status, lastUpdateDate |-> None]

\* What _request is called with, and the url of lines 109-112.
Request(method, url, params, data) ==
    [method |-> method, url |-> url, params |-> params, data |-> data]
NoRequest == Request("", "", None, None)

\* The request of operation o in its phase, for an endpoint builder on base.
RequestOf(base, o) ==
    LET Std(endpoint) == BuildStandardUrl(base, CompanyId, endpoint)
        Custom(endpoint) ==
            BuildCustomUrl(base, CompanyId, "techSphereDynamics", "delivery", "v1.0",
                           endpoint, TRUE)
        a == o.arg
    IN CASE o.name = "_request" -> Request("GET", Std("customers"), None, None)
         [] o.name = "get_customers" ->
                Request("GET", Std("customers"), Dict(Top(20)), None)
         [] o.name = "get_customer" ->
                Request("GET", Std("customers(" \o a.cid \o ")"), None, None)
         [] o.name = "get_customer_by_id" ->
                Request("GET", Std("customers(" \o a.customer_id \o ")"), None, None)
         [] o.name = "get_items" ->
                Request("GET", Std("items"), Dict(Top(20)), None)
         [] o.name = "get_item_by_number" ->
                IF o.phase = 1
                THEN Request("GET", Std("items(" \o a.item_no \o ")"), None, None)
                ELSE Request("GET", Std("items"),
                             Dict(WithFilter(Top(1), "number eq '" \o a.item_no \o "'")),
                             None)
         [] o.name = "get_orders" ->
                Request("GET", Std("salesOrders"), Dict(Top(10)), None)
         [] o.name = "get_sales_orders" ->
                Request("GET", Std("salesOrders"),
                        Dict(WithFilter(Top(20), IF Has(a, "filter_query")
                                                 THEN a["filter_query"] ELSE "")),
                        None)
         [] o.name = "create_customer" ->
                Request("POST", Std("customers"), None, Dict(a.data))
         [] o.name = "get_currency_exchange_rates" ->
                Request("GET", Std("currencyExchangeRates"),
                        Dict(WithFilter(Top(20),
                                        IF Has(a, "currency_code")
                                        THEN "currencyCode eq '" \o a["currency_code"] \o "'"
                                        ELSE "")),
                        None)
         [] o.name = "get_deliveries" ->
                Request("GET", Custom("deliveries"),
                        Dict(WithFilter(Top(20), DeliveriesFilter(a))), None)
         [] o.name = "get_delivery" ->
                IF LooksLikeGuid(a.delivery_id)
                THEN Request("GET", Custom("deliveries(" \o a.delivery_id \o ")"),
                             None, None)
                ELSE Request("GET", Custom("deliveries"),
                             Dict(WithFilter(Top(1), "no eq '" \o a.delivery_id \o "'")),
                             None)
         [] o.name = "update_delivery_status" ->
                Request("PATCH", Custom("deliveries('" \o a.delivery_id \o "')"),
                        None, Dict(StatusBody(a)))
         [] o.name = "get_delivery_routes" ->
                Request("GET", Custom("routes"),
                        Dict("$filter" :>
                                ("routeDate ge " \o a.date_from \o " and routeDate le "
                                    \o a.date_to
                                    \o (IF Has(a, "driver_id")
                                        THEN " and driverId eq '" \o a["driver_id"] \o "'"
                                        ELSE ""))),
                        None)
         [] o.name = "optimize_route" ->
                Request("POST", Custom("routes/optimize"), None, Dict(a.route_data))
         [] o.name = "get_inventory_status" ->
                Request("GET", Custom("inventory"),
                        Dict(WithFilter(EmptyDict,
                                        IF Has(a, "warehouse_id")
                                        THEN "warehouseId eq '" \o a["warehouse_id"] \o "'"
                                        ELSE "")),
                        None)

\* the _request calls an operation can make
Requests(o) == IF o.name = "get_item_by_number" THEN 2 ELSE 1

NoOperation == [name |-> "", arg |-> EmptyDict, phase |-> 0]
Running(o, phase) == [name |-> o.name, arg |-> o.arg, phase |-> phase]

\* `res and 'value' in res and res['value']`, then res['value'][0], else None
\* (lines 214-217 and 365-368)
FirstOfValue(res) ==
    IF Truthy(res) /\ "value" \in DOMAIN res.d /\ res.d.value # <<>>
    THEN Dict(res.d.value[1])
    ELSE None

\* res.get("value", []) if res else []
ValueOrNone(res) ==
    IF Truthy(res)
    THEN (IF "value" \in DOMAIN res.d THEN List(res.d.value) ELSE None)
    ELSE None

ValueOrEmpty(res) ==
    IF Truthy(res)
    THEN (IF "value" \in DOMAIN res.d THEN List(res.d.value) ELSE List(<<>>))
    ELSE List(<<>>)

\* What the operation o (with its phase) returns when its _request returned
\* res and it makes no further _request.
OperationResult(o, res) ==
    IF o.name \in ListOperations THEN ValueOrEmpty(res)
    ELSE IF o.name = "get_item_by_number"
    THEN (IF o.phase = 1 THEN res ELSE FirstOfValue(res))
    ELSE IF o.name = "get_delivery"
    THEN (IF LooksLikeGuid(o.arg.delivery_id) THEN res ELSE FirstOfValue(res))
    ELSE res

\* get_item_by_number, lines 209-213: the direct access gave nothing, the
\* filtered request follows.
ContinuesWhateverResult(p) ==
    /\ pc[p] = "done"
    /\ op[p].name = "get_item_by_number"
    /\ op[p].phase = 1

Continues(p) ==
    /\ pc[p] = "done"
    /\ op[p].name = "get_item_by_number"
    /\ op[p].phase = 1
    /\ ~Truthy(ret[p])

\* A caller starts the operation o, which starts _request(...): lines 109-126.
Call(p, o) ==
    /\ p \in active
    /\ pc[p] = "idle"
    /\ calls + Requests(o) <= MaxCalls
    /\ calls' = calls + 1
    /\ op' = [op EXCEPT ![p] = Running(o, 1)]
    /\ req' = [req EXCEPT ![p] = RequestOf(base_url, Running(o, 1))]
    /\ EnterIteration(p, 0, tm_token, <<>>, NoResp)
    /\ acq' = IF pc'[p] = "fetch" THEN AcqPosted(acq) ELSE acq
    /\ UNCHANGED <<identity, base_url, built, tm_token, tm_expires, now, grant, active, resp, exc>>

\* The token endpoint answers the POST of _fetch (azure_auth.py 80-87), and
\* _request goes on from line 118.
TokenReply(p, r) ==
    /\ pc[p] = "fetch"
    /\ IF r.raises # ""
       THEN \* the exception leaves _fetch, get_token and _request
            /\ pc' = [pc EXCEPT ![p] = "raised"]
            /\ exc' = [exc EXCEPT ![p] = r.raises]
            /\ UNCHANGED <<tm_token, tm_expires, grant, acq, token, ret, errlog, trace>>
       ELSE IF r.status = 200
       THEN /\ tm_token' = StoredToken(r.json, tm_token)
            /\ tm_expires' = now + ExpiresIn(r.json)
            /\ grant' = Granted(now, r.json)
            /\ acq' = [acq EXCEPT !.ok = TRUE]
            /\ AfterGetToken(p, tm_token', trace[p])
            /\ UNCHANGED exc
       ELSE \* _fetch returns None
            /\ AfterGetToken(p, NoToken, trace[p])
            /\ UNCHANGED <<tm_token, tm_expires, grant, acq, exc>>
    /\ UNCHANGED <<identity, base_url, built, now, active, op, req, calls, i, resp>>

\* The API answers the request of line 126; lines 128-144 and what follows.
ApiReply(p, r) ==
    /\ pc[p] = "request"
    /\ LET tr == Append(trace[p], EvResp(r.status))
       IN IF r.raises # ""
          THEN \* the exception leaves _request
               /\ pc' = [pc EXCEPT ![p] = "raised"]
               /\ exc' = [exc EXCEPT ![p] = r.raises]
               /\ UNCHANGED <<tm_token, acq, resp, i, token, ret, errlog, trace>>
          ELSE /\ resp' = [resp EXCEPT ![p] = r]
               /\ UNCHANGED exc
               /\ IF IsSuccessStatus(r.status)
                  THEN /\ pc' = [pc EXCEPT ![p] = "done"]
                       /\ ret' = [ret EXCEPT ![p] = SuccessValue(r)]
                       /\ trace' = [trace EXCEPT ![p] = tr]
                       /\ UNCHANGED <<tm_token, acq, i, token, errlog>>
                  ELSE IF IsUnauthorized(r.status)
                  THEN /\ tm_token' = InvalidatedToken(tm_token)
                       /\ EnterIteration(p, NextAttempt(i[p]), InvalidatedToken(tm_token),
                                         Append(tr, EvInvalidate(InvalidatedToken(tm_token))), r)
                       /\ acq' = IF pc'[p] = "fetch" THEN AcqPosted(AcqReset) ELSE AcqReset
                  ELSE IF IsServerError(r.status)
                  THEN /\ pc' = [pc EXCEPT ![p] = "sleep"]
                       /\ trace' = [trace EXCEPT ![p] = Append(tr, EvSleep(Backoff(i[p])))]
                       /\ UNCHANGED <<tm_token, acq, i, token, ret, errlog>>
                  ELSE /\ Fail(p, tr, r)
                       /\ UNCHANGED <<tm_token, acq>>
    /\ UNCHANGED <<identity, base_url, built, tm_expires, now, grant, active, op, req, calls>>

\* asyncio.sleep returns (line 142), continue: the next iteration starts.
\* The requested duration is in the trace; the clock is moved by Tick alone.
Wake(p) ==
    /\ pc[p] = "sleep"
    /\ EnterIteration(p, NextAttempt(i[p]), tm_token, trace[p], resp[p])
    /\ acq' = IF pc'[p] = "fetch" THEN AcqPosted(acq) ELSE acq
    /\ UNCHANGED <<identity, base_url, built, tm_token, tm_expires, now, grant, active, op, req, calls, resp, exc>>

\* get_item_by_number goes on to its second _request (lines 212-213); the
\* locals of the first are gone.
NextRequest(p) ==
    /\ Continues(p)
    /\ calls' = calls + 1
    /\ op' = [op EXCEPT ![p] = Running(op[p], 2)]
    /\ req' = [req EXCEPT ![p] = RequestOf(base_url, Running(op[p], 2))]
    /\ resp' = [resp EXCEPT ![p] = NoResp]
    /\ EnterIteration(p, 0, tm_token, <<>>, NoResp)
    /\ acq' = IF pc'[p] = "fetch" THEN AcqPosted(acq) ELSE acq
    /\ UNCHANGED <<identity, base_url, built, tm_token, tm_expires, now, grant, active, exc>>

\* The call is over (lines 120, 131-135, 149, or an exception) and so is the
\* operation that made it: its locals and its result are gone, the token
\* manager's cache stays.
Finish(p) ==
    /\ pc[p] \in {"done", "raised"}
    /\ ~Continues(p)
    /\ op' = [op EXCEPT ![p] = NoOperation]
    /\ req' = [req EXCEPT ![p] = NoRequest]
    /\ pc' = [pc EXCEPT ![p] = "idle"]
    /\ i' = [i EXCEPT ![p] = 0]
    /\ token' = [token EXCEPT ![p] = NoToken]
    /\ resp' = [resp EXCEPT ![p] = NoResp]
    /\ ret' = [ret EXCEPT ![p] = None]
    /\ exc' = [exc EXCEPT ![p] = ""]
    /\ errlog' = [errlog EXCEPT ![p] = NoLog]
    /\ trace' = [trace EXCEPT ![p] = <<>>]
    /\ UNCHANGED <<identity, base_url, built, tm_token, tm_expires, now, grant, acq, active, calls>>

\* Time passes: the clock moves to a later instant t.
Tick(t) ==
    /\ t > now
    /\ now' = t
    /\ acq' = IF Valid(tm_token, tm_expires, now) /\ ~Valid(tm_token, tm_expires, t)
              THEN AcqReset ELSE acq
    /\ UNCHANGED <<identity, base_url, built, tm_token, tm_expires, grant, active, op, req, calls,
                   pc, i, token, resp, ret, exc, errlog, trace>>

-----------------------------------------------------------------------------

Init ==
    /\ identity \in SUBSET IdentityFields
    /\ base_url = DeploymentBase
    /\ built = NoBuilt
    /\ tm_token = NoToken
    /\ tm_expires = NoExpiry
    /\ now = 0
    /\ grant = NoGrant
    /\ acq = AcqReset
    /\ active = {"c1"}
    /\ op = [p \in Callers |-> NoOperation]
    /\ req = [p \in Callers |-> NoRequest]
    /\ calls = 0
    /\ pc = [p \in Callers |-> "idle"]
    /\ i = [p \in Callers |-> 0]
    /\ token = [p \in Callers |-> NoToken]
    /\ resp = [p \in Callers |-> NoResp]
    /\ ret = [p \in Callers |-> None]
    /\ exc = [p \in Callers |-> ""]
    /\ errlog = [p \in Callers |-> NoLog]
    /\ trace = [p \in Callers |-> <<>>]

Next ==
    \/ \E p \in Callers : Call(p, Direct)
    \/ \E p \in Callers : \E r \in TokenReplies : TokenReply(p, r)
    \/ \E p \in Callers : \E r \in ApiOutcomes : ApiReply(p, r)
    \/ \E p \in Callers : Wake(p)
    \/ \E p \in Callers : Finish(p)
    \/ \E t \in Instants : Tick(t)

Spec == Init /\ [][Next]_vars

\* Every request in flight is answered (by a response or by a transport
\* error) and every sleep ends: the awaits of _request and _fetch complete.
Fairness ==
    \A p \in Callers :
        /\ WF_vars(\E r \in TokenReplies : TokenReply(p, r))
        /\ WF_vars(\E r \in ApiOutcomes : ApiReply(p, r))
        /\ WF_vars(Wake(p))

FairSpec == Spec /\ Fairness

\* A caller uses the operations of the client. What they add to _request does
\* not depend on the clock, which stands still here.
NextOperations ==
    \/ \E p \in Callers : \E o \in Operations : Call(p, o)
    \/ \E p \in Callers : \E r \in TokenReplies : TokenReply(p, r)
    \/ \E p \in Callers : \E r \in ApiOutcomes : ApiReply(p, r)
    \/ \E p \in Callers : Wake(p)
    \/ \E p \in Callers : NextRequest(p)
    \/ \E p \in Callers : Finish(p)

SpecOperations == Init /\ [][NextOperations]_vars

\* build_custom_url is called on a builder made for one of the bases.
BuildCustom(b) ==
    /\ built' = [call |-> b,
                 url |-> BuildCustomUrl(base_url, CompanyId, b.publisher, b.app_group,
                                        b.version, b.endpoint, b.use_company)]
    /\ UNCHANGED <<identity, base_url, tm_token, tm_expires, now, grant, acq, active,
                   op, req, calls, pc, i, token, resp, ret, exc, errlog, trace>>

InitBuilder ==
    /\ identity = IdentityFields
    /\ base_url \in BaseUrls
    /\ built = NoBuilt
    /\ tm_token = NoToken
    /\ tm_expires = NoExpiry
    /\ now = 0
    /\ grant = NoGrant
    /\ acq = AcqReset
    /\ active = {"c1"}
    /\ op = [p \in Callers |-> NoOperation]
    /\ req = [p \in Callers |-> NoRequest]
    /\ calls = 0
    /\ pc = [p \in Callers |-> "idle"]
    /\ i = [p \in Callers |-> 0]
    /\ token = [p \in Callers |-> NoToken]
    /\ resp = [p \in Callers |-> NoResp]
    /\ ret = [p \in Callers |-> None]
    /\ exc = [p \in Callers |-> ""]
    /\ errlog = [p \in Callers |-> NoLog]
    /\ trace = [p \in Callers |-> <<>>]

NextBuilder == \E b \in BuilderCalls : BuildCustom(b)

SpecBuilder == InitBuilder /\ [][NextBuilder]_vars

\* Two callers share token_manager; their calls interleave at the awaits.
InitOverlapping ==
    /\ identity = IdentityFields
    /\ base_url = DeploymentBase
    /\ built = NoBuilt
    /\ tm_token = NoToken
    /\ tm_expires = NoExpiry
    /\ now = 0
    /\ grant = NoGrant
    /\ acq = AcqReset
    /\ active = Callers
    /\ op = [p \in Callers |-> NoOperation]
    /\ req = [p \in Callers |-> NoRequest]
    /\ calls = 0
    /\ pc = [p \in Callers |-> "idle"]
    /\ i = [p \in Callers |-> 0]
    /\ token = [p \in Callers |-> NoToken]
    /\ resp = [p \in Callers |-> NoResp]
    /\ ret = [p \in Callers |-> None]
    /\ exc = [p \in Callers |-> ""]
    /\ errlog = [p \in Callers |-> NoLog]
    /\ trace = [p \in Callers |-> <<>>]

\* What matters to the shared cache in the answers: from the API, success and
\* 401 (line 137 clears the token); from the token endpoint, a token or a
\* refusal; and the clock moves once, so that two grants can differ in time.
\* The retries after a sleep and the expiry are those of Spec.
OverlappingOutcomes == {Response(200, TxtSuccess), Response(401, TxtEmpty)}

OverlappingTokenReplies ==
    {r \in TokenReplies :
        r.raises = "" /\ r.status \in {200, 400} /\ "expires_in" \notin DOMAIN r.json}

OverlappingInstants == {MaxTime - 2}

NextOverlapping ==
    \/ \E p \in Callers : Call(p, Direct)
    \/ \E p \in Callers : \E r \in OverlappingTokenReplies : TokenReply(p, r)
    \/ \E p \in Callers : \E r \in OverlappingOutcomes : ApiReply(p, r)
    \/ \E p \in Callers : Finish(p)
    \/ \E t \in OverlappingInstants : Tick(t)

SpecOverlapping == InitOverlapping /\ [][NextOverlapping]_vars

-----------------------------------------------------------------------------
(* Observations of the current call of a caller *)

Statuses(p) == Values(p, "resp")
Attempts(p) == Count(p, "send")
Sleeps(p) == Values(p, "sleep")
Rep(n, x) == [k \in 1..n |-> x]
Last(sq) == sq[Len(sq)]

\* every get_token of the call so far returned a credential
CredentialsHeld(p) == \A k \in 1..Count(p, "got") : Values(p, "got")[k] # NoToken

\* the value lines 132-135 give for a 200 or 201 response with this text
BodyValue(text) ==
    IF text \in ValidJson THEN ParseJson(text)
    ELSE Dict([success |-> TRUE, raw_response |-> text])

-----------------------------------------------------------------------------
(* C1 as stated: for every k in 0..3, k consecutive 500 responses followed  *)
(* by a 200 make _request return the body of the 200 after exactly k+1      *)
(* attempts, the sleeps being the first k of 1, 2, 4.  A call whose         *)
(* credentials were all obtained therefore never ends having seen only the  *)
(* k 500s: the attempt answered by the 200 is still to be made.             *)
C1_Stated ==
    \A p \in active : \A k \in 0..3 :
        /\ (pc[p] = "done" /\ CredentialsHeld(p)) => Statuses(p) # Rep(k, 500)
        /\ (pc[p] = "done" /\ Statuses(p) = Rep(k, 500) \o <<200>>) =>
              /\ ret[p] = BodyValue(resp[p].text)
              /\ Attempts(p) = k + 1
              /\ Sleeps(p) = SubSeq(<<1, 2, 4>>, 1, k)

(* C1 amended: the same for every k in 0..2, the 500s that leave an attempt *)
(* of the budget of 3 for the 200.                                          *)
C1_BackoffThenSuccess ==
    \A p \in active : \A k \in 0..2 :
        /\ (pc[p] = "done" /\ CredentialsHeld(p)) => Statuses(p) # Rep(k, 500)
        /\ (pc[p] = "done" /\ Statuses(p) = Rep(k, 500) \o <<200>>) =>
              /\ ret[p] = BodyValue(resp[p].text)
              /\ Attempts(p) = k + 1
              /\ Sleeps(p) = SubSeq(<<1, 2, 4>>, 1, k)

C1_Witness ==
    \E p \in active :
        /\ pc[p] = "done"
        /\ Statuses(p) = <<500, 500, 200>>
        /\ Sleeps(p) = <<1, 2>>
        /\ ret[p] = Dict([value |-> <<[number |-> "ABC"]>>])

(* C2: once a call has received three consecutive 500 responses it has made *)
(* exactly 3 attempts, makes no fourth, and returns None.                   *)
C2_ThreeFailuresExhaust ==
    \A p \in active :
        (Len(Statuses(p)) >= 3 /\ SubSeq(Statuses(p), 1, 3) = <<500, 500, 500>>) =>
            /\ Statuses(p) = <<500, 500, 500>>
            /\ Attempts(p) = 3
            /\ pc[p] \in {"sleep", "done"}
            /\ pc[p] = "done" => ret[p] = None

C2_Witness ==
    \E p \in active :
        /\ pc[p] = "done"
        /\ Statuses(p) = <<500, 500, 500>>
        /\ CredentialsHeld(p)
        /\ ret[p] = None

(* C3: in the trace of a call every 401 response is followed at once by one *)
(* invalidation that leaves the cached token absent; invalidations happen   *)
(* nowhere else; the next get_token comes after it, finds no cached token   *)
(* and fetches; and the 401 used up its loop index.                         *)
C3_UnauthorizedInvalidatesOnce ==
    \A p \in active :
        /\ \A k \in 1..Len(trace[p]) :
              /\ trace[p][k] = EvResp(401) =>
                    /\ k + 1 <= Len(trace[p])
                    /\ trace[p][k + 1] = EvInvalidate(NoToken)
                    /\ k + 2 <= Len(trace[p]) =>
                          /\ trace[p][k + 2] = EvGetToken
                          /\ k + 3 <= Len(trace[p])
                          /\ trace[p][k + 3] = EvFetch
              /\ trace[p][k].e = "invalidate" =>
                    /\ k > 1
                    /\ trace[p][k - 1] = EvResp(401)
        /\ Count(p, "invalidate") = Len(SelectSeq(Statuses(p), LAMBDA s : s = 401))
        /\ Count(p, "get_token") >= 1 => i[p] = Count(p, "get_token") - 1
        /\ Count(p, "get_token") <= 3

C3_Witness ==
    \E p \in active :
        /\ Len(trace[p]) >= 6
        /\ \E k \in 1..Len(trace[p]) - 4 :
              /\ trace[p][k] = EvResp(401)
              /\ trace[p][k + 1] = EvInvalidate(NoToken)
              /\ trace[p][k + 2] = EvGetToken
              /\ trace[p][k + 3] = EvFetch
              /\ trace[p][k + 4].e = "got"
        /\ tm_expires # NoExpiry
        /\ now < tm_expires

(* C4: when the first get_token of a call returns no credential, the call   *)
(* has returned None at that point: no API request was sent, no sleep was   *)
(* made and get_token was not called again.                                 *)
C4_NoCredentialShortCircuit ==
    \A p \in active :
        (Count(p, "got") >= 1 /\ Values(p, "got")[1] = NoToken) =>
            /\ pc[p] = "done"
            /\ ret[p] = None
            /\ Attempts(p) = 0
            /\ Count(p, "sleep") = 0
            /\ Count(p, "get_token") = 1
            /\ Last(trace[p]) = EvGot(NoToken)

C4_Witness ==
    \E p \in active :
        /\ pc[p] = "done"
        /\ trace[p] = <<EvGetToken, EvFetch, EvGot(NoToken)>>
        /\ ret[p] = None

(* C5: a response whose status is none of 200, 201, 204, 401 and is below   *)
(* 500 ends the call in the step that receives it: None is returned, the    *)
(* loop index does not move, nothing follows the response in the trace (no  *)
(* sleep, no further attempt) and the cached token and expiry are untouched.*)
OtherStatus(status) == status \notin {200, 201, 204, 401} /\ status < 500

C5_TerminalFailureAtOnce ==
    [][\A p \in active :
          (pc[p] = "request" /\ pc'[p] \notin {"request", "raised"}
             /\ OtherStatus(resp'[p].status)) =>
              /\ pc'[p] = "done"
              /\ ret'[p] = None
              /\ trace'[p] = Append(trace[p], EvResp(resp'[p].status))
              /\ i'[p] = i[p]
              /\ tm_token' = tm_token
              /\ tm_expires' = tm_expires]_vars

C5_Witness ==
    \E p \in active :
        /\ pc[p] = "done"
        /\ Last(trace[p]) = EvResp(404)
        /\ i[p] = 1
        /\ tm_token # NoToken
        /\ ret[p] = None

(* C6: _request never propagates an exception, whatever the token endpoint  *)
(* and the API do, transport errors included.                               *)
C6_NeverRaises ==
    \A p \in active : pc[p] # "raised"

(* C7: a call sends at most 3 API requests and calls get_token at most 3    *)
(* times, whatever mix of 401 and 5xx it receives, and once started it ends:*)
(* with a returned value, or with the exception of an await that did not    *)
(* return.                                                                  *)
C7_BoundedAttemptsAndTermination ==
    /\ [](\A p \in active :
             /\ Attempts(p) <= 3
             /\ Count(p, "get_token") <= 3
             /\ Len(Statuses(p)) <= Attempts(p))
    /\ \A p \in Callers :
          (pc[p] \in {"fetch", "request", "sleep"}) ~> (pc[p] \in {"done", "raised"})

C7_Witness ==
    \E p \in active :
        /\ pc[p] = "done"
        /\ Attempts(p) = 3
        /\ Statuses(p) = <<401, 503, 401>>

(* C8 as stated: the value returned for a 204 differs from the value        *)
(* returned for every 200 or 201 response.                                  *)
NoContentValue == Dict([success |-> TRUE])

C8_Stated ==
    \A p \in active :
        /\ (pc[p] = "done" /\ resp[p].status = 204) => ret[p] = NoContentValue
        /\ (pc[p] = "done" /\ resp[p].status \in {200, 201}) => ret[p] # NoContentValue

(* C8 amended: a 204 returns {"success": True}; a 200 or 201 returns that   *)
(* same value exactly when its body is the JSON object {"success": true};   *)
(* the value returned for any other body differs from it: an empty body and *)
(* every other unparseable body give a dict that also has raw_response.     *)
C8_NoContentDistinctButForSuccessBody ==
    \A p \in active :
        /\ (pc[p] = "done" /\ resp[p].status = 204) => ret[p] = NoContentValue
        /\ (pc[p] = "done" /\ resp[p].status \in {200, 201}) =>
              /\ (ret[p] = NoContentValue) <=> (resp[p].text = TxtSuccess)
              /\ resp[p].text \notin ValidJson =>
                    /\ ret[p].py = "dict"
                    /\ "raw_response" \in DOMAIN ret[p].d

C8_Witness ==
    \E p \in active :
        /\ pc[p] = "done"
        /\ resp[p] = Response(200, TxtEmpty)
        /\ ret[p] = Dict([success |-> TRUE, raw_response |-> ""])
        /\ ret[p] # NoContentValue

(* C9: a 200 or 201 response whose body is not JSON ends the call at once   *)
(* with the value {"success": True, "raw_response": <the body text>}: no    *)
(* failure value, no further attempt, no exception.                         *)
C9_UnparseableBodyFallback ==
    \A p \in active :
        (/\ trace[p] # <<>>
         /\ Last(trace[p]).e = "resp"
         /\ Last(trace[p]).v \in {200, 201}
         /\ resp[p].text \notin ValidJson) =>
            /\ pc[p] = "done"
            /\ ret[p] = Dict([success |-> TRUE, raw_response |-> resp[p].text])
            /\ ret[p] # None
            /\ Attempts(p) = Len(Statuses(p))

C9_Witness ==
    \E p \in active :
        /\ pc[p] = "done"
        /\ resp[p] = Response(200, TxtHtml)
        /\ Statuses(p) = <<500, 200>>
        /\ ret[p] = Dict([success |-> TRUE, raw_response |-> TxtHtml])

(* A call whose every attempt of the budget ended in a 401 or a 5xx.        *)
Exhausted(p) ==
    /\ pc[p] = "done"
    /\ Len(Statuses(p)) = 3
    /\ \A k \in 1..3 : Statuses(p)[k] = 401 \/ Statuses(p)[k] >= 500

(* C10 as stated: after such a call the returned value carries the status   *)
(* of the last attempt.                                                     *)
C10_Stated ==
    \A p \in active :
        Exhausted(p) =>
            /\ ret[p].py = "dict"
            /\ "status" \in DOMAIN ret[p].d
            /\ ret[p].d["status"] = Statuses(p)[3]

(* C10 amended: after such a call _request returns None, the value of every *)
(* other failure; the status of the last attempt and the first 200          *)
(* characters of its body are written to the error log only.                *)
C10_ExhaustedReturnsNoneLogsStatus ==
    \A p \in active :
        Exhausted(p) =>
            /\ ret[p] = None
            /\ errlog[p].msg = "status"
            /\ errlog[p].status = Statuses(p)[3]
            /\ errlog[p].status = resp[p].status
            /\ Len(errlog[p].excerpt) <= 200
            /\ Len(resp[p].text) <= 200 => errlog[p].excerpt = resp[p].text
            /\ Len(resp[p].text) > 200 =>
                  errlog[p].excerpt = SubSeq(resp[p].text, 1, 200)

C10_Witness ==
    \E p \in active :
        /\ Exhausted(p)
        /\ Statuses(p) = <<401, 503, 500>>
        /\ Len(resp[p].text) > 200
        /\ Len(errlog[p].excerpt) = 200
        /\ ret[p] = None

-----------------------------------------------------------------------------
(* The token manager seen through get_token *)

\* In this step a get_token of caller p returns v without awaiting _fetch: the
\* trace of p grows by get_token directly followed by got(v).
ReturnsAtOnce(p, v) ==
    \E k \in (Len(trace[p]) + 1)..(Len(trace'[p]) - 1) :
        trace'[p][k] = EvGetToken /\ trace'[p][k + 1] = EvGot(v)

\* In this step a get_token of caller p posts to the token endpoint.
PostsAcquisition(p) ==
    \E k \in (Len(trace[p]) + 1)..(Len(trace'[p]) - 1) :
        trace'[p][k] = EvGetToken /\ trace'[p][k + 1] = EvFetch

\* the last n events of the call of p
LastEvents(p, n) == SubSeq(trace[p], Len(trace[p]) - n + 1, Len(trace[p]))

\* C11: in every reachable state a stored token comes with an expiry, and
\* _valid says yes exactly when a token is stored and the clock is strictly
\* before that expiry; and whenever get_token hands out a token without
\* fetching, it is the stored token and the clock is strictly before the
\* stored expiry.
C11_ValidIffPresentAndBeforeExpiry ==
    /\ [](/\ (tm_token # NoToken => tm_expires # NoExpiry)
          /\ (Valid(tm_token, tm_expires, now)
                <=> (tm_token # NoToken /\ now < tm_expires)))
    /\ [][\A p \in Callers : \A v \in Tokens :
            ReturnsAtOnce(p, v) =>
                v = tm_token /\ tm_token # NoToken /\ now < tm_expires]_vars

\* A retry is served from the cache one second before the expiry.
C11_Witness ==
    \E p \in active :
        /\ pc[p] = "request"
        /\ Len(trace[p]) >= 4
        /\ LastEvents(p, 4) = <<EvSleep(Backoff(0)), EvGetToken, EvGot(tm_token),
                          EvSend(tm_token)>>
        /\ tm_token # NoToken
        /\ now = tm_expires - 1

\* the answer of the token endpoint gave a lifetime of 3600 s, or gave none
GrantedAnHour ==
    /\ grant # NoGrant
    /\ ("expires_in" \notin DOMAIN grant.json \/ grant.json.expires_in = 3600)

\* C12: a token acquired at time T from an answer with expires_in 3600, or
\* with no expires_in, is stored with the expiry T + 3600 exactly, so that
\* _valid says yes at T + 3599 and no at T + 3601.
C12_HourWithoutMargin ==
    GrantedAnHour =>
        /\ tm_expires = grant.at + 3600
        /\ tm_token # NoToken =>
              /\ Valid(tm_token, tm_expires, grant.at + 3599)
              /\ ~Valid(tm_token, tm_expires, grant.at + 3601)
        /\ (tm_token # NoToken /\ now <= grant.at + 3599)
              => Valid(tm_token, tm_expires, now)
        /\ now >= grant.at + 3601 => ~Valid(tm_token, tm_expires, now)

\* A token acquired at the start from an answer without expires_in: the retry
\* 3601 s later goes back to the token endpoint.
C12_Witness ==
    \E p \in active :
        /\ grant # NoGrant
        /\ "expires_in" \notin DOMAIN grant.json
        /\ tm_token # NoToken
        /\ now = grant.at + 3601
        /\ pc[p] = "fetch"
        /\ Count(p, "fetch") = 2

\* In this step caller p calls get_token.
CallsGetToken(p) ==
    \E k \in (Len(trace[p]) + 1)..Len(trace'[p]) : trace'[p][k] = EvGetToken

\* what get_token finds in the cache when it is called in this step (line 137
\* of client.py, when it runs in the same step, has run before)
FindsValidCache == tm_token' # NoToken /\ now' < tm_expires'

\* C13, as stated, in its last part: between two losses of the cached token
\* (invalidation or expiry) at most one acquisition request is sent.
C13_Stated == acq.sent <= 1

\* C13: with the identity configured, a get_token that finds a valid cache
\* returns the cached token at once and one that does not posts one request to
\* the token endpoint; a get_token never posts twice; and over the
\* non-overlapping calls between two losses of the cached token, no request is
\* posted after one has been answered with a token.
C13_CacheBeforeAcquisition ==
    /\ [][\A p \in Callers :
            (CallsGetToken(p) /\ identity = IdentityFields) =>
                IF FindsValidCache
                THEN ReturnsAtOnce(p, tm_token') /\ ~PostsAcquisition(p)
                ELSE PostsAcquisition(p) /\ pc'[p] = "fetch"]_vars
    /\ [](\A p \in Callers :
            /\ Count(p, "fetch") <= Count(p, "get_token")
            /\ \A k \in 2..Len(trace[p]) :
                  trace[p][k] = EvFetch => trace[p][k - 1] = EvGetToken)
    /\ [](acq.late = 0)

\* The first call failed to acquire a token; the second acquired one, and its
\* retry is served from the cache.
C13_Witness ==
    \E p \in active :
        /\ acq = [sent |-> 2, ok |-> TRUE, late |-> 0]
        /\ Count(p, "fetch") = 1
        /\ Count(p, "get_token") = 2
        /\ Len(trace[p]) >= 3
        /\ LastEvents(p, 3) = <<EvGetToken, EvGot(tm_token), EvSend(tm_token)>>
        /\ tm_token # NoToken

\* C14: once line 137 has cleared the token, a get_token that finds it cleared
\* posts a new acquisition request, in the same call or in a later one and
\* whatever the stored expiry; the event after an invalidation is never a
\* token handed out from the cache.
C14_InvalidatedTokenNotServed ==
    /\ [][\A p \in Callers :
            (CallsGetToken(p) /\ identity = IdentityFields /\ tm_token' = NoToken) =>
                /\ PostsAcquisition(p)
                /\ \A v \in Tokens \cup {NoToken} : ~ReturnsAtOnce(p, v)]_vars
    /\ [](\A p \in Callers : \A k \in 1..Len(trace[p]) :
            (trace[p][k].e = "invalidate" /\ k + 2 <= Len(trace[p])) =>
                /\ trace[p][k] = EvInvalidate(NoToken)
                /\ trace[p][k + 1] = EvGetToken
                /\ trace[p][k + 2] = EvFetch)

\* A call ended with the token invalidated; the next call, before the stored
\* expiry, is waiting for the token endpoint.
C14_Witness ==
    \E p \in active :
        /\ calls = 2
        /\ pc[p] = "fetch"
        /\ trace[p] = <<EvGetToken, EvFetch>>
        /\ tm_token = NoToken
        /\ tm_expires # NoExpiry
        /\ now < tm_expires

\* the expiries the cache can hold
Expiries == {NoExpiry} \cup {t + DefaultExpiresIn : t \in Instants}

\* C15: with one of the three identity fields missing, get_token returns None
\* whatever the cache holds and whatever the time, a valid cached token
\* included; and in the running program such a get_token posts nothing and
\* leaves the stored token and expiry as they were.
C15_UnconfiguredIsAbsent ==
    /\ [](\A id \in SUBSET IdentityFields : \A tok \in Tokens \cup {NoToken} :
            \A e \in Expiries : \A t \in Instants :
                id # IdentityFields => GetTokenPath(id, tok, e, t) = "absent")
    /\ [][\A p \in Callers :
            (CallsGetToken(p) /\ identity # IdentityFields) =>
                /\ ReturnsAtOnce(p, NoToken)
                /\ ~PostsAcquisition(p)
                /\ pc'[p] # "fetch"
                /\ tm_token' = tm_token
                /\ tm_expires' = tm_expires]_vars

\* Only the client secret is missing; the call ended after one get_token.
C15_Witness ==
    \E p \in active :
        /\ identity = {"tenant_id", "client_id"}
        /\ pc[p] = "done"
        /\ trace[p] = <<EvGetToken, EvGot(NoToken)>>
        /\ ret[p] = None

\* C16: a failed acquisition makes get_token return None and is never raised
\* to its caller: no call ends with an exception while it waits for the token
\* endpoint.
C16_FailedAcquisitionIsAbsent ==
    \A p \in Callers :
        ~(pc[p] = "raised" /\ Len(trace[p]) > 0 /\ Last(trace[p]) = EvFetch)

-----------------------------------------------------------------------------
(* Calls that overlap *)

\* C17: when the _request calls of two callers interleave at their awaits,
\* the cache is never torn: the stored token is None or the access_token of
\* the last 200 answer of the token endpoint that _fetch processed, and the
\* stored expiry is the time of that same answer plus its lifetime (3600 s
\* when it names none); the last answer processed wins.
C17_CacheNeverTorn ==
    /\ tm_token # NoToken =>
          /\ grant # NoGrant
          /\ tm_token = grant.json.access_token
    /\ tm_expires # NoExpiry =>
          /\ grant # NoGrant
          /\ tm_expires = grant.at + (IF "expires_in" \in DOMAIN grant.json
                                      THEN grant.json.expires_in ELSE 3600)
    /\ tm_expires = NoExpiry => (tm_token = NoToken /\ grant = NoGrant)

\* Both callers found the cache empty and both acquired a token, at different
\* times and with different results: two requests were posted where one would
\* have done, and the cache holds the pair that was stored last.
C17_Witness ==
    /\ active = Callers
    /\ \A p \in Callers :
          /\ pc[p] = "request"
          /\ trace[p] = <<EvGetToken, EvFetch, EvGot(token[p]), EvSend(token[p])>>
    /\ token["c1"] # token["c2"]
    /\ tm_token = token["c2"]
    /\ grant.at > 0
    /\ acq.sent = 2

-----------------------------------------------------------------------------
(* The operations of the client *)

\* The operation of caller p returns now, and what it returns.
OperationReturns(p) == pc[p] = "done" /\ op[p].phase > 0 /\ ~Continues(p)
Result(p) == OperationResult(op[p], ret[p])

EmptyList == List(<<>>)

HasValueArray(p) ==
    /\ resp[p].status \in {200, 201}
    /\ Len(trace[p]) > 0
    /\ Last(trace[p]) = EvResp(resp[p].status)
    /\ resp[p].text \in ValidJson
    /\ ParseJson(resp[p].text).py = "dict"
    /\ "value" \in DOMAIN ParseJson(resp[p].text).d

\* the part of C19 about the values returned
ListValuesReturned ==
    \A p \in Callers :
        (op[p].name \in ListOperations /\ OperationReturns(p)) =>
            Result(p) = IF HasValueArray(p)
                        THEN List(ParseJson(resp[p].text).d.value)
                        ELSE EmptyList

\* C19: a list operation returns the `value` array of a success body and the
\* empty list for every other outcome of its request, and it never raises
\* for a fault of the remote service.
C19_ListOperationsNeverRaise ==
    /\ ListValuesReturned
    /\ \A p \in Callers : op[p].name \in ListOperations => pc[p] # "raised"

\* the remote service answered 200 with an empty `value` list
AnsweredEmpty(p) ==
    /\ Len(trace[p]) > 0
    /\ Last(trace[p]) = EvResp(200)
    /\ resp[p].text = TxtEmptyList

\* the remote service was unavailable: every attempt of the budget ended in a
\* 5xx, or an attempt ended in a terminal 4xx, or no credential was obtained
Unavailable(p) ==
    /\ Len(trace[p]) > 0
    /\ \/ /\ Len(Statuses(p)) = Retries
          /\ \A k \in 1..Retries : Statuses(p)[k] >= 500
          /\ Last(trace[p]).e = "sleep"
       \/ /\ Last(trace[p]).e = "resp"
          /\ OtherStatus(Last(trace[p]).v)
       \/ Last(trace[p]) = EvGot(NoToken)

\* C20: whether the remote service answers a list operation with an empty
\* `value` list or is unavailable, the operation returns one and the same
\* value, the empty list: any two runs that differ only in that return equal
\* values.
C20_EmptyListHidesUnavailability ==
    \A p \in Callers :
        (op[p].name \in ListOperations /\ OperationReturns(p)
            /\ (AnsweredEmpty(p) \/ Unavailable(p))) =>
                Result(p) = EmptyList

\* get_deliveries after three 5xx answers
C20_Witness ==
    \E p \in active :
        /\ op[p].name = "get_deliveries"
        /\ OperationReturns(p)
        /\ Unavailable(p)
        /\ Statuses(p) = <<503, 500, 503>>
        /\ Result(p) = EmptyList

-----------------------------------------------------------------------------
(* The requests of the operations *)

\* the `value` array of the last response of the call, empty when it has none
ValueArray(p) ==
    IF HasValueArray(p) THEN ParseJson(resp[p].text).d.value ELSE <<>>

\* the first record of that array, None when there is none
FirstRecord(p) == IF ValueArray(p) # <<>> THEN Dict(ValueArray(p)[1]) ELSE None

\* _request returned something other than None and {}
YieldsResult(p) == pc[p] = "done" /\ ret[p] # None /\ ret[p] # Dict(EmptyDict)

\* C21: get_item_by_number("ABC") first requests items(ABC); when that gives
\* a result the operation returns it and makes no second request; when it
\* gives none, the one request that follows is the list query on items with
\* number eq 'ABC' and $top 1, after which the operation returns the first
\* record of the answer, or None when there is none or the query failed.
C21_TwoPhaseLookup ==
    /\ [](\A p \in Callers :
            op[p].name = "get_item_by_number" =>
              /\ op[p].phase \in {1, 2}
              /\ op[p].phase = 1 =>
                    /\ req[p] = Request("GET",
                                        "https://x/v2.0/T/prod/api/v2.0/companies(C)/items(ABC)",
                                        None, None)
                    /\ OperationReturns(p) => (YieldsResult(p) /\ Result(p) = ret[p])
              /\ op[p].phase = 2 =>
                    /\ req[p] = Request("GET",
                                        "https://x/v2.0/T/prod/api/v2.0/companies(C)/items",
                                        Dict(("$filter" :> "number eq 'ABC'") @@ ("$top" :> 1)),
                                        None)
                    /\ OperationReturns(p) => Result(p) = FirstRecord(p))
    /\ [][\A p \in Callers :
            op[p].name = "get_item_by_number" =>
              /\ (op[p].phase = 1 /\ op'[p] # op[p]) =>
                    IF YieldsResult(p) \/ pc[p] = "raised"
                    THEN op'[p] = NoOperation /\ calls' = calls
                    ELSE op'[p] = Running(op[p], 2) /\ calls' = calls + 1
              /\ (op[p].phase = 2 /\ op'[p] # op[p]) =>
                    op'[p] = NoOperation /\ calls' = calls]_vars

\* The direct request gave nothing, the filtered query one record, which the
\* operation returns.
C21_Witness ==
    \E p \in active :
        /\ op[p].name = "get_item_by_number"
        /\ op[p].phase = 2
        /\ OperationReturns(p)
        /\ resp[p] = Response(200, TxtOneItem)
        /\ Result(p) = Dict([number |-> "ABC"])

\* the url of the deliveries collection of the custom API
DeliveriesUrl ==
    "https://x/v2.0/T/prod/api/techSphereDynamics/delivery/v1.0/companies(C)/deliveries"

\* the delivery ids that are longer than 20 characters and contain a hyphen
KeyedIds == {"0f8fad5b-d9cb-469f-a165-70867728950e", "DEL-00000000000000001"}

\* the request is the direct one, with the key unquoted in the url
KeyedRequest(p, id) ==
    req[p] = Request("GET", DeliveriesUrl \o "(" \o id \o ")", None, None)

\* the request is the list query with no eq 'id' and $top 1
FilteredRequest(p, id) ==
    req[p] = Request("GET", DeliveriesUrl,
                     Dict(("$filter" :> ("no eq '" \o id \o "'")) @@ ("$top" :> 1)),
                     None)

\* C22: get_delivery(id) makes the direct request deliveries(id), the key
\* unquoted, exactly for the ids longer than 20 characters that contain a
\* hyphen, and returns what it gives; for every other id it makes the list
\* query with no eq 'id' and $top 1 on the deliveries collection and returns
\* the first record or None. Each id takes one of the two ways and only one.
C22_GuidShapedKeysGoDirect ==
    \A p \in Callers :
        op[p].name = "get_delivery" =>
            LET id == op[p].arg.delivery_id
            IN /\ op[p].phase = 1
               /\ KeyedRequest(p, id) # FilteredRequest(p, id)
               /\ KeyedRequest(p, id) <=> id \in KeyedIds
               /\ KeyedRequest(p, id) <=> (Len(id) > 20 /\ Find(id, "-") > 0)
               /\ OperationReturns(p) =>
                     Result(p) = IF id \in KeyedIds THEN ret[p] ELSE FirstRecord(p)

\* An id of 20 characters with a hyphen goes by the list query, whose first
\* record is returned.
C22_Witness ==
    \E p \in active :
        /\ op[p].name = "get_delivery"
        /\ op[p].arg.delivery_id = "DEL-0000000000000001"
        /\ Len(op[p].arg.delivery_id) = 20
        /\ FilteredRequest(p, "DEL-0000000000000001")
        /\ OperationReturns(p)
        /\ Result(p) = Dict([number |-> "ABC"])

\* caller p runs get_deliveries with the filters f
GetsDeliveries(p, f) == op[p].name = "get_deliveries" /\ op[p].arg = f

\* the query parameters of the request of p
Params(p) == req[p].params.d

StatusAndDateFrom == [status |-> "Delivered", date_from |-> "2024-01-01"]

\* C23, as stated: for the filters {status: "Delivered", date_from:
\* "2024-01-01"} the filter sent has no parentheses around the date clause.
C23_Stated ==
    \A p \in Callers :
        GetsDeliveries(p, StatusAndDateFrom) =>
            Params(p)["$filter"] = "status eq 'Delivered' and deliveryDate ge 2024-01-01"

\* C23: for the filters {status: "Delivered", date_from: "2024-01-01"}
\* get_deliveries sends $top 20 and the filter string
\* "status eq 'Delivered' and (deliveryDate ge 2024-01-01)", the date clause
\* in parentheses.
C23_DateClauseInParentheses ==
    \A p \in Callers :
        GetsDeliveries(p, StatusAndDateFrom) =>
            /\ req[p].method = "GET"
            /\ req[p].url = DeliveriesUrl
            /\ Params(p) = ("$top" :> 20)
                  @@ ("$filter" :> "status eq 'Delivered' and (deliveryDate ge 2024-01-01)")

\* The request with that filter is on its way.
C23_Witness ==
    \E p \in active :
        /\ GetsDeliveries(p, StatusAndDateFrom)
        /\ pc[p] = "request"
        /\ Count(p, "send") = 1
        /\ "$filter" \in DOMAIN Params(p)

\* The clauses of a filter, in the order customer, status, dates: the two
\* date clauses joined into one, in parentheses when a clause precedes them.
Given(f, k) == k \in DOMAIN f /\ f[k] # ""
DateClauses(f) ==
    (IF Given(f, "date_from") THEN <<"deliveryDate ge " \o f["date_from"]>> ELSE <<>>)
    \o (IF Given(f, "date_to") THEN <<"deliveryDate le " \o f["date_to"]>> ELSE <<>>)
EarlierClauses(f) ==
    (IF Given(f, "customer_id") THEN <<"customerId eq '" \o f["customer_id"] \o "'">> ELSE <<>>)
    \o (IF Given(f, "status") THEN <<"status eq '" \o f["status"] \o "'">> ELSE <<>>)
Clauses(f) ==
    EarlierClauses(f)
    \o (IF DateClauses(f) = <<>> THEN <<>>
        ELSE IF EarlierClauses(f) = <<>> THEN <<JoinAnd(DateClauses(f))>>
        ELSE <<"(" \o JoinAnd(DateClauses(f)) \o ")">>)

StartsWith(x, pre) == Len(x) >= Len(pre) /\ SubSeq(x, 1, Len(pre)) = pre
EndsWith(x, suf) == Len(x) >= Len(suf) /\ SubSeq(x, Len(x) - Len(suf) + 1, Len(x)) = suf

AllFour ==
    [customer_id |-> "C001", status |-> "Delivered", date_from |-> "2024-01-01",
     date_to |-> "2024-01-31"]

-----------------------------------------------------------------------------
(* The endpoint builder *)

\* the base up to the first "/api/v2.0", written out for each base
CutAtVersionSegment(base) ==
    CASE base = "https://x/v2.0/T/prod/api/v2.0" -> "https://x/v2.0/T/prod"
      [] base = "https://x/api/v2.0/T/api/v2.0" -> "https://x"
      [] base = "https://x/api/v2.0/beta" -> "https://x"
      [] base = "https://x/bc" -> "https://x/bc"

AcmeThings ==
    [publisher |-> "acme", app_group |-> "g", version |-> "v1", endpoint |-> "things",
     use_company |-> TRUE]

\* C25: build_custom_url cuts the base at the first "/api/v2.0" and appends
\* /api/{publisher}/{app_group}/{version}/, then companies({company})/ when
\* company-scoped, then the resource; for the base
\* "https://x/v2.0/T/prod/api/v2.0", company C and (acme, g, v1, things, true)
\* the result is "https://x/v2.0/T/prod/api/acme/g/v1/companies(C)/things",
\* the earlier /v2.0 segment untouched.
C25_CustomUrlCutsAtVersionSegment ==
    built # NoBuilt =>
        LET b == built.call
        IN /\ built.url =
                 CutAtVersionSegment(base_url) \o "/api/" \o b.publisher \o "/"
                    \o b.app_group \o "/" \o b.version \o "/"
                    \o (IF b.use_company THEN "companies(C)/" ELSE "") \o b.endpoint
           /\ (base_url = "https://x/v2.0/T/prod/api/v2.0" /\ b = AcmeThings) =>
                 built.url = "https://x/v2.0/T/prod/api/acme/g/v1/companies(C)/things"

\* The call of the example has been made.
C25_Witness ==
    /\ base_url = "https://x/v2.0/T/prod/api/v2.0"
    /\ built.call = AcmeThings
    /\ built.url = "https://x/v2.0/T/prod/api/acme/g/v1/companies(C)/things"

-----------------------------------------------------------------------------
(* The body of update_delivery_status *)

UpdatesStatus(p) == op[p].name = "update_delivery_status"
Body(p) == req[p].data.d

\* C26, as stated: the body has lastUpdateDate set to None unless notes are
\* supplied; when notes are supplied it carries the notes (and no
\* lastUpdateDate).
C26_Stated ==
    \A p \in Callers :
        UpdatesStatus(p) =>
            IF op[p].arg.notes = ""
            THEN "lastUpdateDate" \in DOMAIN Body(p) /\ Body(p).lastUpdateDate = None
            ELSE /\ "notes" \in DOMAIN Body(p)
                 /\ Body(p).notes = op[p].arg.notes
                 /\ "lastUpdateDate" \notin DOMAIN Body(p)

\* C26: the body of update_delivery_status always has the status and
\* lastUpdateDate set to None, whether notes are supplied or not; it has the
\* notes as well exactly when they are not empty. It goes by PATCH to
\* deliveries('{delivery_id}').
C26_MarkerAlwaysSet ==
    \A p \in Callers :
        UpdatesStatus(p) =>
            /\ req[p].method = "PATCH"
            /\ req[p].url = DeliveriesUrl \o "('DEL-001')"
            /\ req[p].params = None
            /\ Body(p) = IF op[p].arg.notes = ""
                         THEN [status |-> "Delivered", lastUpdateDate |-> None]
                         ELSE [status |-> "Delivered", lastUpdateDate |-> None,
                               notes |-> "left at the door"]

\* An update with notes is on its way.
C26_Witness ==
    \E p \in active :
        /\ UpdatesStatus(p)
        /\ op[p].arg.notes = "left at the door"
        /\ pc[p] = "request"
        /\ Count(p, "send") = 1
        /\ DOMAIN Body(p) = {"status", "lastUpdateDate", "notes"}

-----------------------------------------------------------------------------
(* Backoff, re-acquisition and the cache within one _request call *)

\* the number of responses received before place k of the trace: the index
\* of the attempt that place belongs to
AttemptAt(p, k) == Cardinality({j \in 1..(k - 1) : trace[p][j].e = "resp"})

\* C27: within one call asyncio.sleep is called right after every response
\* with a status of 500 or more and after no other response (not after a
\* 401); the duration is 2^i with i the index of the attempt in the loop, the
\* attempts answered 401 counted; the sleep follows a 5xx of the last attempt
\* too, before the call returns.
C27_SleepAfterEachServerError ==
    \A p \in Callers :
        /\ \A k \in 1..Len(trace[p]) :
              /\ trace[p][k].e = "resp" =>
                    IF trace[p][k].v >= 500
                    THEN /\ k < Len(trace[p])
                         /\ trace[p][k + 1] = EvSleep(2 ^ AttemptAt(p, k))
                    ELSE k = Len(trace[p]) \/ trace[p][k + 1].e # "sleep"
              /\ trace[p][k].e = "sleep" =>
                    /\ k > 1
                    /\ trace[p][k - 1].e = "resp"
                    /\ trace[p][k - 1].v >= 500
        /\ pc[p] = "sleep" =>
              LastEvents(p, 2) = <<EvResp(resp[p].status), EvSleep(2 ^ i[p])>>
        /\ (pc[p] = "done" /\ Count(p, "resp") = Retries
                /\ Values(p, "resp")[Retries] >= 500) =>
              /\ ret[p] = None
              /\ LastEvents(p, 1) = <<EvSleep(2 ^ (Retries - 1))>>

\* A 401 at attempt 0, a 500 at attempt 1 and a 503 at the last attempt: the
\* sleeps are of 2 s and 4 s, and the call has failed after the second.
C27_Witness ==
    \E p \in active :
        /\ pc[p] = "done"
        /\ ret[p] = None
        /\ Values(p, "resp") = <<401, 500, 503>>
        /\ Values(p, "sleep") = <<2, 4>>

\* C28: get_token is called at the head of every attempt; once it returns
\* None, in the first attempt or in a later one, the call returns None right
\* there: nothing is sent and no attempt follows.
C28_AbsentCredentialEndsTheCall ==
    \A p \in Callers :
        /\ trace[p] # <<>> => Count(p, "get_token") = i[p] + 1
        /\ \A k \in 1..Len(trace[p]) :
              /\ trace[p][k].e = "send" => AttemptAt(p, k) + 1 = Len(SelectSeq(
                    SubSeq(trace[p], 1, k), LAMBDA x : x.e = "get_token"))
              /\ trace[p][k] = EvGot(NoToken) =>
                    /\ k = Len(trace[p])
                    /\ pc[p] = "done"
                    /\ ret[p] = None
                    /\ errlog[p].msg = "no_credentials"
                    /\ Count(p, "send") = AttemptAt(p, k)

\* The first attempt was answered 401 and the acquisition that followed got
\* no token: the call is over after one request.
C28_Witness ==
    \E p \in active :
        /\ IdentityConfigured
        /\ pc[p] = "done"
        /\ i[p] = 1
        /\ Values(p, "resp") = <<401>>
        /\ LastEvents(p, 3) = <<EvGetToken, EvFetch, EvGot(NoToken)>>
        /\ Count(p, "send") = 1

\* the step in which caller p's request is answered
Answered(p) ==
    /\ pc[p] = "request"
    /\ Len(trace'[p]) > Len(trace[p]) \/ pc'[p] = "raised"

\* C29: the step that handles a response leaves token_manager._expires as it
\* is, and leaves token_manager._token as it is unless the status is 401, in
\* which case _token becomes None.
C29_OnlyUnauthorizedTouchesCache ==
    [][\A p \in Callers :
          Answered(p) =>
              /\ tm_expires' = tm_expires
              /\ IF pc'[p] # "raised" /\ resp'[p].status = 401
                 THEN tm_token' = NoToken
                 ELSE tm_token' = tm_token]_vars

\* A 401 has cleared the token: the expiry of the grant is still there.
C29_Witness ==
    \E p \in active :
        /\ Values(p, "resp") = <<401>>
        /\ tm_token = NoToken
        /\ tm_expires # NoExpiry
        /\ tm_expires = grant.at + ExpiresIn(grant.json)

\* C30: every request sent carries a token that is not None and is the one
\* get_token returned just before, in the same attempt, whatever the other
\* caller does meanwhile.
C30_SentTokenIsTheOneReturned ==
    \A p \in Callers :
        /\ \A k \in 1..Len(trace[p]) :
              trace[p][k].e = "send" =>
                  /\ trace[p][k].v # NoToken
                  /\ k > 1
                  /\ trace[p][k - 1] = EvGot(trace[p][k].v)
        /\ pc[p] = "request" =>
              /\ token[p] # NoToken
              /\ LastEvents(p, 1) = <<EvSend(token[p])>>

\* Caller q's 401 cleared the cache while caller p was waiting for the token
\* endpoint: q's new acquisition is the only one posted since the cache was
\* cleared, and the one answered since then is p's, whose request has gone out
\* with the token of that answer.
C30_Witness ==
    \E p, q \in active :
        /\ p # q
        /\ pc[p] = "request"
        /\ trace[p] = <<EvGetToken, EvFetch, EvGot(token[p]), EvSend(token[p])>>
        /\ token[p] # NoToken
        /\ pc[q] = "fetch"
        /\ Count(q, "resp") = 1
        /\ LastEvents(q, 4) = <<EvResp(401), EvInvalidate(NoToken), EvGetToken, EvFetch>>
        /\ acq.sent = 1
        /\ acq.ok

====
